---------------------------- MODULE Spec2Model ----------------------------
(***************************************************************************)
(* Model of src/bot.py (CryptoSignalBot): the technical indicator engine,  *)
(* the signal scorer (generate_signal) and the analysis scheduler          *)
(* (analyze_crypto, run_analysis_cycle, run_bot).                          *)
(*                                                                         *)
(* Numbers.  The program works on Python floats; the model works on exact  *)
(* integers:                                                               *)
(*   - a price of a series is a whole number of dollars;                   *)
(*   - money values of a snapshot (current_price, support, resistance,     *)
(*     macd, signal, histogram) are counted in 1/Scale dollars, the unit   *)
(*     of round(x, 4);                                                     *)
(*   - rsi is counted in 1/100, the unit of round(rsi, 2);                 *)
(*   - a moving average is the exact fraction [num, den] of dollars, and   *)
(*     comparisons with it are made by cross multiplication.               *)
(*   - an exponential average is counted in 1/EmaScale dollars, rounded   *)
(*     at each step of its recurrence.                                     *)
(***************************************************************************)
EXTENDS Integers, Sequences, FiniteSets, TLC

VARIABLES
    \* ---- scheduler (run_bot / run_analysis_cycle / analyze_crypto) ----
    pc,                 \* position of the single thread of control
    idx,                \* index in the registry of the asset being handled
    current_data,       \* analyze_crypto local: result of fetch_crypto_data
    historical_prices,  \* analyze_crypto local: result of fetch_historical_data
    signal_message,     \* analyze_crypto local: result of generate_signal
    visited,            \* history: assets analyze_crypto was called for, this cycle
    outcome,            \* history: how the handling of each asset went, this cycle
    sends,              \* history: calls of send_telegram_message per asset, this cycle
    delivery,           \* history: result of the delivery per asset, this cycle
    paced,              \* history: pacing sleeps per asset, this cycle
    prevOutcome,        \* history: how the previous cycle ended
    slept,              \* history: sleeps of run_bot since the previous cycle ended
    \* ---- indicator engine and scorer run on their own ----
    stage,              \* position of a stand-alone run of the engine and scorer
    prices,             \* input: the price series (whole dollars)
    analysis,           \* the analysis dict handed to generate_signal
    now1, now2,         \* clock readings of the first and of the second run
    signals,            \* generate_signal local: the rationale list
    signal_strength,    \* generate_signal local: the final strength
    result1, result2    \* return values of the first and of the second run

vars == << pc, idx, current_data, historical_prices, signal_message, visited,
           outcome, sends, delivery, paced, prevOutcome, slept,
           stage, prices, analysis, now1, now2, signals, signal_strength,
           result1, result2 >>

schedVars == << pc, idx, current_data, historical_prices, signal_message,
                visited, outcome, sends, delivery, paced, prevOutcome, slept >>

pureVars == << stage, prices, analysis, now1, now2, signals, signal_strength,
               result1, result2 >>

---------------------------------------------------------------------------
(* Program constants *)

rsi_period == 14
ma_short == 20
ma_long == 50
macd_fast == 12
macd_slow == 26
sr_window == 20
Scale == 10000
PACING_DELAY == 2
COOLDOWN_DELAY == 900
RECOVERY_DELAY == 60

\* self.crypto_coins, in insertion order (dicts iterate in insertion order)
crypto_coins ==
    << <<"bitcoin", "BTC">>, <<"ethereum", "ETH">>, <<"binancecoin", "BNB">>,
       <<"cardano", "ADA">>, <<"polygon", "MATIC">>, <<"dogecoin", "DOGE">>,
       <<"solana", "SOL">>, <<"chainlink", "LINK">>, <<"avalanche-2", "AVAX">>,
       <<"polkadot", "DOT">> >>

(* Bounds of the model *)

NumAssets == 3        \* the cycle runs over the first NumAssets entries
ClockSize == 2        \* distinct readings of datetime.now(), as %H:%M:%S
MaxTail == 2          \* free trailing prices of an input series

---------------------------------------------------------------------------
(* Arithmetic helpers *)

\* round(n / d) for d > 0, ties to even: Python's round()
RoundDiv(n, d) ==
    LET q == n \div d          \* floor
        r == n - q * d         \* 0 <= r < d
    IN  IF 2 * r < d THEN q
        ELSE IF 2 * r > d THEN q + 1
        ELSE IF q % 2 = 0 THEN q ELSE q + 1

\* sum of s[lo..hi], by halves
RECURSIVE SumRange(_, _, _)
SumRange(s, lo, hi) ==
    IF lo > hi THEN 0
    ELSE IF lo = hi THEN s[lo]
    ELSE SumRange(s, lo, (lo + hi) \div 2) + SumRange(s, (lo + hi) \div 2 + 1, hi)

\* (the sequence is bound once, then summed)
Sum(s) == CHOOSE v \in { SumRange(t, 1, Len(t)) : t \in {s} } : TRUE

Min(s) == CHOOSE x \in {s[k] : k \in 1..Len(s)} : \A k \in 1..Len(s) : x <= s[k]

Max(s) == CHOOSE x \in {s[k] : k \in 1..Len(s)} : \A k \in 1..Len(s) : x >= s[k]

\* prices[-n:]
Trailing(s, n) == IF Len(s) <= n THEN s ELSE SubSeq(s, Len(s) - n + 1, Len(s))

\* np.diff(prices)
Diff(s) == [k \in 1..(Len(s) - 1) |-> s[k + 1] - s[k]]

---------------------------------------------------------------------------
(* Indicator engine *)

\* calculate_rsi, lines 117-128, on the deltas of line 116: in 1/100
RsiOfDeltas(deltas) ==
    LET gains  == [k \in 1..Len(deltas) |-> IF deltas[k] > 0 THEN deltas[k] ELSE 0]
        losses == [k \in 1..Len(deltas) |-> IF deltas[k] < 0 THEN -deltas[k] ELSE 0]
        G == Sum(gains)
        L == Sum(losses)
    IN  IF L = 0 THEN 10000
        \* 100 - 100 / (1 + G/L) = 100 * G / (G + L), rounded to 2 decimals
        ELSE RoundDiv(10000 * G, G + L)

\* variant: a window without any movement reads as neutral
calculate_rsi_flat_neutral(ps, period) ==
    IF Len(ps) < period + 1 THEN 5000
    ELSE IF \A k \in (Len(ps) - period)..(Len(ps) - 1) : ps[k + 1] = ps[k] THEN 5000
    ELSE CHOOSE v \in { RsiOfDeltas(d) : d \in {Trailing(Diff(ps), period)} } : TRUE

\* calculate_rsi: in 1/100
calculate_rsi(ps, period) ==
    IF Len(ps) < period + 1 THEN 5000
    ELSE CHOOSE v \in { RsiOfDeltas(d) : d \in {Trailing(Diff(ps), period)} } : TRUE

\* calculate_moving_average: the exact fraction sum / count, in dollars
calculate_moving_average(ps, period) ==
    IF Len(ps) < period
    THEN [num |-> Sum(ps), den |-> Len(ps)]
    ELSE [num |-> Sum(Trailing(ps, period)), den |-> period]

\* precision of the exponential average: one digit more than round(x, 4) keeps
EmaScale == Scale * 10

\* the value of ema after the loop of lines 163-164 has taken prices[1..k-1]
\* (k counts from 1: EmaAt(ps, 1, period) is the seed prices[0])
RECURSIVE EmaAt(_, _, _)
EmaAt(ps, k, period) ==
    IF k = 1 THEN ps[1] * EmaScale
    ELSE CHOOSE v \in { RoundDiv(2 * ps[k] * EmaScale + (period - 1) * e, period + 1) :
                        e \in {EmaAt(ps, k - 1, period)} } : TRUE

\* calculate_ema: in 1/EmaScale dollars; seeded with prices[0], run over prices[1:]
calculate_ema(ps, period) ==
    IF Len(ps) < period THEN RoundDiv(Sum(ps) * EmaScale, Len(ps))
    ELSE EmaAt(ps, Len(ps), period)

\* calculate_macd, lines 145-153, on the macd_line of line 143 (in 1/EmaScale
\* dollars): signal_line = macd_line * 0.8, histogram = macd_line - signal_line,
\* each rounded to 4 decimals
MacdOfLine(macd_line) ==
    LET unit == EmaScale \div Scale
    IN  [macd      |-> RoundDiv(macd_line, unit),
         signal    |-> RoundDiv(macd_line * 8, 10 * unit),
         histogram |-> RoundDiv(macd_line * 2, 10 * unit)]

\* calculate_macd: in 1/Scale dollars
calculate_macd(ps) ==
    IF Len(ps) < macd_slow THEN [macd |-> 0, signal |-> 0, histogram |-> 0]
    ELSE CHOOSE v \in { MacdOfLine(ema12 - ema26) :
                        ema12 \in {calculate_ema(ps, macd_fast)},
                        ema26 \in {calculate_ema(ps, macd_slow)} } : TRUE

\* analyze_support_resistance: in 1/Scale dollars
analyze_support_resistance(ps) ==
    IF Len(ps) < sr_window
    THEN [support    |-> (ps[Len(ps)] * Scale * 95) \div 100,
          resistance |-> (ps[Len(ps)] * Scale * 105) \div 100]
    ELSE [support    |-> Min(Trailing(ps, sr_window)) * Scale,
          resistance |-> Max(Trailing(ps, sr_window)) * Scale]

\* analyze_crypto, lines 288-306: the analysis dict of a series and a price
BuildAnalysis(ps, current_price) ==
    LET sr == analyze_support_resistance(ps)
    IN  [current_price |-> current_price * Scale,
         rsi        |-> calculate_rsi(ps, rsi_period),
         ma20       |-> calculate_moving_average(ps, ma_short),
         ma50       |-> calculate_moving_average(ps, ma_long),
         macd       |-> calculate_macd(ps),
         support    |-> sr.support,
         resistance |-> sr.resistance]

---------------------------------------------------------------------------
(* Signal scorer: generate_signal *)

\* A rationale note is a tuple: <<text>> or <<text, level>>
NOTE_OVERSOLD     == <<"RSI Oversold - Potential BUY">>
NOTE_OVERBOUGHT   == <<"RSI Overbought - Potential SELL">>
NOTE_BULLISH_MA   == <<"Bullish MA Cross">>
NOTE_BEARISH_MA   == <<"Bearish MA Cross">>
NOTE_MACD_BULLISH == <<"MACD Bullish">>
NOTE_MACD_BEARISH == <<"MACD Bearish">>
NoteSupport(level)    == <<"Near Support Level", level>>
NoteResistance(level) == <<"Near Resistance Level", level>>

\* comparisons of the fractions ma20, ma50 and of the price with a fraction
FracGt(x, y) == x.num * y.den > y.num * x.den
FracLt(x, y) == x.num * y.den < y.num * x.den
PriceGt(price, x) == price * x.den > x.num * Scale
PriceLt(price, x) == price * x.den < x.num * Scale

\* the conditions of the rule table, as the code writes them
CondOversold(a)    == a.rsi < 3000
CondOverbought(a)  == a.rsi > 7000
CondBullishMA(a)   == FracGt(a.ma20, a.ma50) /\ PriceGt(a.current_price, a.ma20)
CondBearishMA(a)   == FracLt(a.ma20, a.ma50) /\ PriceLt(a.current_price, a.ma20)
CondMacdBullish(a) == a.macd.macd > a.macd.signal /\ a.macd.macd > 0
CondMacdBearish(a) == a.macd.macd < a.macd.signal /\ a.macd.macd < 0
\* price <= support * 1.02 ; price >= resistance * 0.98
CondNearSupport(a)    == a.current_price * 100 <= a.support * 102
CondNearResistance(a) == a.current_price * 100 >= a.resistance * 98

\* each rule group: the notes it appends and what it adds to signal_strength
RsiRule(a) ==
    IF CondOversold(a) THEN [notes |-> <<NOTE_OVERSOLD>>, delta |-> 2]
    ELSE IF CondOverbought(a) THEN [notes |-> <<NOTE_OVERBOUGHT>>, delta |-> -2]
    ELSE [notes |-> << >>, delta |-> 0]

MaRule(a) ==
    IF CondBullishMA(a) THEN [notes |-> <<NOTE_BULLISH_MA>>, delta |-> 1]
    ELSE IF CondBearishMA(a) THEN [notes |-> <<NOTE_BEARISH_MA>>, delta |-> -1]
    ELSE [notes |-> << >>, delta |-> 0]

MacdRule(a) ==
    IF CondMacdBullish(a) THEN [notes |-> <<NOTE_MACD_BULLISH>>, delta |-> 1]
    ELSE IF CondMacdBearish(a) THEN [notes |-> <<NOTE_MACD_BEARISH>>, delta |-> -1]
    ELSE [notes |-> << >>, delta |-> 0]

\* variant: the two level checks as independent ifs
LevelRule_independent(a) ==
    [notes |-> (IF CondNearSupport(a) THEN <<NoteSupport(a.support)>> ELSE << >>)
               \o (IF CondNearResistance(a)
                   THEN <<NoteResistance(a.resistance)>> ELSE << >>),
     delta |-> 0]

LevelRule(a) ==
    IF CondNearSupport(a) THEN [notes |-> <<NoteSupport(a.support)>>, delta |-> 0]
    ELSE IF CondNearResistance(a)
         THEN [notes |-> <<NoteResistance(a.resistance)>>, delta |-> 0]
    ELSE [notes |-> << >>, delta |-> 0]

\* the list `signals` after the four rule groups
BuildSignals(a) ==
    RsiRule(a).notes \o MaRule(a).notes \o MacdRule(a).notes \o LevelRule(a).notes

\* `signal_strength` after the four rule groups
BuildStrength(a) ==
    RsiRule(a).delta + MaRule(a).delta + MacdRule(a).delta + LevelRule(a).delta

\* variant: the weak thresholds tested before the strong ones
SignalType_weak_first(strength) ==
    IF strength >= 1 THEN "BUY"
    ELSE IF strength <= -1 THEN "SELL"
    ELSE IF strength >= 2 THEN "STRONG BUY"
    ELSE IF strength <= -2 THEN "STRONG SELL"
    ELSE "HOLD"

\* lines 233-243
SignalType(strength) ==
    IF strength >= 2 THEN "STRONG BUY"
    ELSE IF strength >= 1 THEN "BUY"
    ELSE IF strength <= -2 THEN "STRONG SELL"
    ELSE IF strength <= -1 THEN "SELL"
    ELSE "HOLD"

\* Optional[str]: None is the empty sequence, a message m is <<m>>
None == << >>

\* variant: the time is not read when the message is built
Message_stale_time(symbol, a, now) ==
    [symbol      |-> symbol,
     price       |-> a.current_price,
     signal_type |-> SignalType(BuildStrength(a)),
     rsi         |-> a.rsi,
     ma20        |-> a.ma20,
     ma50        |-> a.ma50,
     macd        |-> a.macd.macd,
     support     |-> a.support,
     resistance  |-> a.resistance,
     signals     |-> BuildSignals(a),
     time        |-> 0]

\* the message of lines 246-265, field by field; now is datetime.now() as %H:%M:%S
Message(symbol, a, now) ==
    [symbol      |-> symbol,
     price       |-> a.current_price,
     signal_type |-> SignalType(BuildStrength(a)),
     rsi         |-> a.rsi,
     ma20        |-> a.ma20,
     ma50        |-> a.ma50,
     macd        |-> a.macd.macd,
     support     |-> a.support,
     resistance  |-> a.resistance,
     signals     |-> BuildSignals(a),
     time        |-> now]

\* variant: the message is suppressed on a strength of zero
generate_signal_on_strength(symbol, a, now) ==
    IF BuildStrength(a) # 0 THEN << Message(symbol, a, now) >> ELSE None

generate_signal(symbol, a, now) ==
    IF BuildSignals(a) # << >> THEN << Message(symbol, a, now) >> ELSE None

---------------------------------------------------------------------------
(* Inputs of the model *)

Clock == 0..(ClockSize - 1)

\* a series of n prices: flat at base, ending with the free prices of tail
Series(n, base, tail) == Trailing([k \in 1..n |-> base] \o tail, n)

SeriesLens == {1, 14, 15, 19, 20, 26, 30, 51}
TailPrices == {95, 100, 105}
SeriesSet ==
    { Series(n, 100, t) : n \in SeriesLens, t \in [1..MaxTail -> TailPrices] }

CurrentPrices == {96, 100, 104}

Frac(n) == [num |-> n, den |-> 1]
SnapshotSet ==
    [current_price : {96 * Scale, 100 * Scale, 104 * Scale},
     rsi        : {2500, 3000, 5000, 7000, 7500},
     ma20       : {Frac(98), Frac(102)},
     ma50       : {Frac(98), Frac(102)},
     macd       : {[macd |-> -50, signal |-> -40, histogram |-> -10],
                   [macd |-> 0, signal |-> 0, histogram |-> 0],
                   [macd |-> 50, signal |-> 40, histogram |-> 10],
                   [macd |-> 50, signal |-> 50, histogram |-> 0]},
     support    : {90 * Scale, 100 * Scale},
     resistance : {100 * Scale, 110 * Scale}]

NoAnalysis ==
    [current_price |-> 0, rsi |-> 0, ma20 |-> Frac(0), ma50 |-> Frac(0),
     macd |-> [macd |-> 0, signal |-> 0, histogram |-> 0],
     support |-> 0, resistance |-> 0]

\* the first NumAssets entries of self.crypto_coins
Registry == SubSeq(crypto_coins, 1, NumAssets)
Assets == 1..NumAssets

\* responses of the market-data provider, as fetch_crypto_data returns them:
\* None, or the decoded body (wellformed: it has market_data.current_price.usd)
CurrentDataSet ==
    { <<[wellformed |-> TRUE, usd |-> 100]>>,
      <<[wellformed |-> TRUE, usd |-> 96]>>,
      <<[wellformed |-> FALSE, usd |-> 0]>> }

\* as fetch_historical_data returns them: None, or the list of prices
HistorySet ==
    { << << >> >>, << <<100>> >>, << Series(30, 100, << >>) >> }

\* outcomes of the HTTP POST of send_telegram_message
PostOutcomes == {"200", "500", "exception"}

---------------------------------------------------------------------------
(* Stand-alone runs of the engine and the scorer *)

SchedIdle ==
    /\ pc = "loop"
    /\ idx = 0
    /\ current_data = None
    /\ historical_prices = None
    /\ signal_message = None
    /\ visited = << >>
    /\ outcome = [a \in Assets |-> "none"]
    /\ sends = [a \in Assets |-> 0]
    /\ delivery = [a \in Assets |-> "none"]
    /\ paced = [a \in Assets |-> 0]
    /\ prevOutcome = "none"
    /\ slept = << >>

PureIdle ==
    /\ stage = "idle"
    /\ prices = << >>
    /\ analysis = NoAnalysis
    /\ now1 = 0
    /\ now2 = 0
    /\ signals = << >>
    /\ signal_strength = 0
    /\ result1 = None
    /\ result2 = None

\* generate_signal is called with a snapshot computed from a series, or with
\* any snapshot
InitSignal ==
    /\ SchedIdle
    /\ now1 = 0
    /\ now2 = 0
    /\ signals = << >>
    /\ signal_strength = 0
    /\ result1 = None
    /\ result2 = None
    /\ \/ /\ stage = "series"
          /\ prices \in SeriesSet
          /\ analysis = NoAnalysis
       \/ /\ stage = "snapshot"
          /\ prices = << >>
          /\ analysis \in SnapshotSet

\* analyze_crypto lines 288-306 on the series and a current price
CalculateIndicators ==
    /\ stage = "series"
    /\ \E p \in CurrentPrices : analysis' = BuildAnalysis(prices, p)
    /\ stage' = "snapshot"
    /\ UNCHANGED << prices, now1, now2, signals, signal_strength, result1, result2 >>
    /\ UNCHANGED schedVars

\* the first run of generate_signal on the snapshot, at some time
GenerateFirst ==
    /\ stage = "snapshot"
    /\ \E t \in Clock :
          /\ now1' = t
          /\ result1' = generate_signal("BTC", analysis, t)
    /\ signals' = BuildSignals(analysis)
    /\ signal_strength' = BuildStrength(analysis)
    /\ stage' = "once"
    /\ UNCHANGED << prices, analysis, now2, result2 >>
    /\ UNCHANGED schedVars

\* a second run on the identical snapshot, at some time
GenerateSecond ==
    /\ stage = "once"
    /\ \E t \in Clock :
          /\ now2' = t
          /\ result2' = generate_signal("BTC", analysis, t)
    /\ stage' = "twice"
    /\ UNCHANGED << prices, analysis, now1, signals, signal_strength, result1 >>
    /\ UNCHANGED schedVars

NextSignal == CalculateIndicators \/ GenerateFirst \/ GenerateSecond

SpecSignal == InitSignal /\ [][NextSignal]_vars
---------------------------------------------------------------------------
(* Analysis scheduler: run_bot, run_analysis_cycle, analyze_crypto *)

AssetPcs == {"fetch_current", "fetch_history", "analyze", "dispatch", "pacing"}
CyclePcs == {"startup"} \cup AssetPcs

\* `if not x`: None and the empty list are both falsy
Falsy(x) == x = None \/ x[1] = << >>

\* variant: a failed POST is tried once more
send_telegram_message_retry(post) ==
    [delivered |-> (post = "200"), raised |-> FALSE,
     posts |-> IF post = "200" THEN 1 ELSE 2]

\* send_telegram_message: what the caller sees for an outcome of the POST.
\* A status other than 200 and an exception are both logged; nothing is raised
\* and nothing is sent again.
send_telegram_message(post) ==
    [delivered |-> (post = "200"), raised |-> FALSE, posts |-> 1]

\* analyze_crypto returns (normally, by an early return or through its except
\* clause): the for loop of run_analysis_cycle takes the next asset, or ends,
\* and run_bot goes on to its cooldown sleep
ReturnFromAnalyze ==
    /\ current_data' = None
    /\ historical_prices' = None
    /\ signal_message' = None
    /\ IF idx < NumAssets
       THEN /\ idx' = idx + 1
            /\ visited' = Append(visited, Registry[idx + 1][1])
            /\ pc' = "fetch_current"
            /\ UNCHANGED << prevOutcome, slept >>
       ELSE /\ pc' = "cooldown"
            /\ prevOutcome' = "completed"
            /\ slept' = << >>
            /\ UNCHANGED << idx, visited >>

Init ==
    /\ SchedIdle
    /\ PureIdle

\* run_bot: the top of `while True`, calling run_analysis_cycle
StartCycle ==
    /\ pc = "loop"
    /\ pc' = "startup"
    /\ idx' = 0
    /\ visited' = << >>
    /\ outcome' = [a \in Assets |-> "none"]
    /\ sends' = [a \in Assets |-> 0]
    /\ delivery' = [a \in Assets |-> "none"]
    /\ paced' = [a \in Assets |-> 0]
    /\ UNCHANGED << current_data, historical_prices, signal_message,
                    prevOutcome, slept >>
    /\ UNCHANGED pureVars

\* run_analysis_cycle up to the for loop: the startup message is sent, whatever
\* becomes of it, and the first asset is taken
SendStartup ==
    /\ pc = "startup"
    /\ \E post \in PostOutcomes :
          /\ ~send_telegram_message(post).raised
          /\ idx' = 1
          /\ visited' = << Registry[1][1] >>
          /\ pc' = "fetch_current"
    /\ UNCHANGED << current_data, historical_prices, signal_message, outcome,
                    sends, delivery, paced, prevOutcome, slept >>
    /\ UNCHANGED pureVars

\* an exception escapes run_analysis_cycle and is caught by run_bot. Inside the
\* for loop analyze_crypto catches every Exception itself (line 318), so the
\* statements that can raise to run_bot are those before the loop
CycleError ==
    /\ pc = "startup"
    /\ pc' = "recovery"
    /\ prevOutcome' = "aborted"
    /\ slept' = << >>
    /\ UNCHANGED << idx, current_data, historical_prices, signal_message, visited,
                    outcome, sends, delivery, paced >>
    /\ UNCHANGED pureVars

\* variant: a failed fetch is raised to run_bot instead of being skipped
FetchCurrent_raising ==
    /\ pc = "fetch_current"
    /\ \E data \in CurrentDataSet \cup {None} :
          IF data = None
          THEN /\ outcome' = [outcome EXCEPT ![idx] = "no_current_data"]
               /\ pc' = "recovery"
               /\ prevOutcome' = "aborted"
               /\ slept' = << >>
               /\ UNCHANGED << idx, current_data, historical_prices,
                               signal_message, visited >>
          ELSE /\ current_data' = data
               /\ pc' = "fetch_history"
               /\ UNCHANGED << idx, historical_prices, signal_message, visited,
                               outcome, prevOutcome, slept >>
    /\ UNCHANGED << sends, delivery, paced >>
    /\ UNCHANGED pureVars

\* analyze_crypto: fetch_crypto_data and `if not current_data: return`
FetchCurrent ==
    /\ pc = "fetch_current"
    /\ \E data \in CurrentDataSet \cup {None} :
          IF data = None
          THEN /\ outcome' = [outcome EXCEPT ![idx] = "no_current_data"]
               /\ ReturnFromAnalyze
          ELSE /\ current_data' = data
               /\ pc' = "fetch_history"
               /\ UNCHANGED << idx, historical_prices, signal_message, visited,
                               outcome, prevOutcome, slept >>
    /\ UNCHANGED << sends, delivery, paced >>
    /\ UNCHANGED pureVars

\* analyze_crypto: fetch_historical_data and `if not historical_prices: return`
FetchHistory ==
    /\ pc = "fetch_history"
    /\ \E hist \in HistorySet \cup {None} :
          IF Falsy(hist)
          THEN /\ outcome' = [outcome EXCEPT ![idx] = "no_history"]
               /\ ReturnFromAnalyze
          ELSE /\ historical_prices' = hist
               /\ pc' = "analyze"
               /\ UNCHANGED << idx, current_data, signal_message, visited,
                               outcome, prevOutcome, slept >>
    /\ UNCHANGED << sends, delivery, paced >>
    /\ UNCHANGED pureVars

\* analyze_crypto lines 284-311: the indicators and generate_signal; a body
\* without market_data.current_price.usd raises, and the except clause of
\* line 318 logs it
Analyze ==
    /\ pc = "analyze"
    /\ IF ~current_data[1].wellformed
       THEN /\ outcome' = [outcome EXCEPT ![idx] = "error"]
            /\ ReturnFromAnalyze
       ELSE /\ \E t \in Clock :
               \E a \in {BuildAnalysis(historical_prices[1], current_data[1].usd)} :
                 signal_message' = generate_signal(Registry[idx][2], a, t)
            /\ outcome' = [outcome EXCEPT ![idx] = "analyzed"]
            /\ pc' = IF signal_message' # None THEN "dispatch" ELSE "pacing"
            /\ UNCHANGED << idx, current_data, historical_prices, visited,
                            prevOutcome, slept >>
    /\ UNCHANGED << sends, delivery, paced >>
    /\ UNCHANGED pureVars

\* analyze_crypto lines 311-313: the signal goes to the notifier
Dispatch ==
    /\ pc = "dispatch"
    /\ \E post \in PostOutcomes :
          LET r == send_telegram_message(post)
          IN  /\ sends' = [sends EXCEPT ![idx] = @ + r.posts]
              /\ delivery' = [delivery EXCEPT ![idx] =
                                 IF r.delivered THEN "ok" ELSE "failed"]
              /\ IF r.raised
                 THEN /\ outcome' = [outcome EXCEPT ![idx] = "error"]
                      /\ ReturnFromAnalyze
                 ELSE /\ pc' = "pacing"
                      /\ UNCHANGED << idx, current_data, historical_prices,
                                      signal_message, visited, outcome,
                                      prevOutcome, slept >>
    /\ UNCHANGED paced
    /\ UNCHANGED pureVars

\* analyze_crypto line 316: asyncio.sleep(2), then the function returns
Pacing ==
    /\ pc = "pacing"
    /\ paced' = [paced EXCEPT ![idx] = @ + 1]
    /\ ReturnFromAnalyze
    /\ UNCHANGED << outcome, sends, delivery >>
    /\ UNCHANGED pureVars

\* run_bot line 354: asyncio.sleep(900), then the next iteration
Cooldown ==
    /\ pc = "cooldown"
    /\ slept' = Append(slept, COOLDOWN_DELAY)
    /\ pc' = "loop"
    /\ UNCHANGED << idx, current_data, historical_prices, signal_message, visited,
                    outcome, sends, delivery, paced, prevOutcome >>
    /\ UNCHANGED pureVars

\* variant: the except clause sleeps the cooldown
Recover_cooldown ==
    /\ pc = "recovery"
    /\ slept' = Append(slept, COOLDOWN_DELAY)
    /\ pc' = "loop"
    /\ UNCHANGED << idx, current_data, historical_prices, signal_message, visited,
                    outcome, sends, delivery, paced, prevOutcome >>
    /\ UNCHANGED pureVars

\* variant: the except clause leaves the loop after its sleep
Recover_exit ==
    /\ pc = "recovery"
    /\ slept' = Append(slept, RECOVERY_DELAY)
    /\ pc' = "exited"
    /\ UNCHANGED << idx, current_data, historical_prices, signal_message, visited,
                    outcome, sends, delivery, paced, prevOutcome >>
    /\ UNCHANGED pureVars

\* run_bot lines 356-358: asyncio.sleep(60), then the next iteration
Recover ==
    /\ pc = "recovery"
    /\ slept' = Append(slept, RECOVERY_DELAY)
    /\ pc' = "loop"
    /\ UNCHANGED << idx, current_data, historical_prices, signal_message, visited,
                    outcome, sends, delivery, paced, prevOutcome >>
    /\ UNCHANGED pureVars

Next ==
    \/ StartCycle
    \/ SendStartup
    \/ CycleError
    \/ FetchCurrent
    \/ FetchHistory
    \/ Analyze
    \/ Dispatch
    \/ Pacing
    \/ Cooldown
    \/ Recover

Spec == Init /\ [][Next]_vars

\* every sleep and every call to the outside returns, and the single thread
\* of control then takes its next step
FairSpec == Spec /\ WF_vars(Next)

---------------------------------------------------------------------------
(* Properties of the scorer, under SpecSignal *)

Scored == stage \in {"once", "twice"}

Count(seq, x) == Cardinality({k \in 1..Len(seq) : seq[k] = x})
Has(seq, x) == Count(seq, x) = 1

\* C1: generate_signal returns None if and only if the rationale list is
\* empty; a strength of 0 with a note returns a HOLD message, a strength of 0
\* without any note returns None.
C1_AbsentIffNoRationale ==
    Scored =>
        /\ (result1 = None) <=> (signals = << >>)
        /\ (signal_strength = 0 /\ signals # << >>) =>
               (result1 # None /\ result1[1].signal_type = "HOLD")
        /\ (signal_strength = 0 /\ signals = << >>) => result1 = None

C1_Witness ==
    /\ Scored
    /\ signal_strength = 0
    /\ signals = << NoteSupport(analysis.support) >>
    /\ result1 # None

\* C2: the final strength lies in -4..4 and the category of a returned message
\* is STRONG BUY for >= 2, BUY for 1, STRONG SELL for <= -2, SELL for -1 and
\* HOLD for 0.
C2_CategoryOfStrength ==
    (Scored /\ result1 # None) =>
        /\ signal_strength \in -4..4
        /\ signal_strength >= 2  => result1[1].signal_type = "STRONG BUY"
        /\ signal_strength = 1   => result1[1].signal_type = "BUY"
        /\ signal_strength <= -2 => result1[1].signal_type = "STRONG SELL"
        /\ signal_strength = -1  => result1[1].signal_type = "SELL"
        /\ signal_strength = 0   => result1[1].signal_type = "HOLD"

C2_Witness ==
    /\ Scored
    /\ signal_strength = -4
    /\ result1 # None
    /\ result1[1].signal_type = "STRONG SELL"

\* the sum of the strength effects of the six scoring rules whose condition holds
RuleSum(a) ==
    (IF CondOversold(a) THEN 2 ELSE 0) + (IF CondOverbought(a) THEN -2 ELSE 0)
    + (IF CondBullishMA(a) THEN 1 ELSE 0) + (IF CondBearishMA(a) THEN -1 ELSE 0)
    + (IF CondMacdBullish(a) THEN 1 ELSE 0) + (IF CondMacdBearish(a) THEN -1 ELSE 0)

\* the six scoring rules: each note is in the list exactly when its condition
\* holds, and the strength is the sum of the effects
ScoringRulesByTable ==
    /\ Has(signals, NOTE_OVERSOLD) <=> CondOversold(analysis)
    /\ Has(signals, NOTE_OVERBOUGHT) <=> CondOverbought(analysis)
    /\ Has(signals, NOTE_BULLISH_MA) <=> CondBullishMA(analysis)
    /\ Has(signals, NOTE_BEARISH_MA) <=> CondBearishMA(analysis)
    /\ Has(signals, NOTE_MACD_BULLISH) <=> CondMacdBullish(analysis)
    /\ Has(signals, NOTE_MACD_BEARISH) <=> CondMacdBearish(analysis)
    /\ \A k \in 1..Len(signals) : Count(signals, signals[k]) = 1
    /\ signal_strength = RuleSum(analysis)

\* C9, as claimed: the eight rules are independent; every note, the
\* near-resistance note included, is in the list exactly when its condition of
\* the rule table holds.
C9_RulesIndependent ==
    Scored =>
        /\ ScoringRulesByTable
        /\ Has(signals, NoteSupport(analysis.support)) <=> CondNearSupport(analysis)
        /\ Has(signals, NoteResistance(analysis.resistance))
              <=> CondNearResistance(analysis)

\* C9, amended: as claimed for the six scoring rules and the near-support note;
\* the near-resistance note is in the list exactly when price >= resistance *
\* 0.98 holds and price <= support * 1.02 does not.
C9_RulesWithLevelPrecedence ==
    Scored =>
        /\ ScoringRulesByTable
        /\ Has(signals, NoteSupport(analysis.support)) <=> CondNearSupport(analysis)
        /\ Has(signals, NoteResistance(analysis.resistance))
              <=> (CondNearResistance(analysis) /\ ~CondNearSupport(analysis))

C9_Witness ==
    /\ Scored
    /\ CondNearSupport(analysis)
    /\ CondNearResistance(analysis)
    /\ Has(signals, NoteSupport(analysis.support))
    /\ ~Has(signals, NoteResistance(analysis.resistance))

\* Scenario A: 30 prices of 100 and a current price of 100
ScenarioA ==
    /\ Scored
    /\ prices = [k \in 1..30 |-> 100]
    /\ analysis.current_price = 100 * Scale

ScenarioAIndicators ==
    /\ analysis.rsi = 10000
    /\ analysis.ma20.num = 100 * analysis.ma20.den
    /\ analysis.ma50.num = 100 * analysis.ma50.den
    /\ analysis.macd.macd = 0
    /\ analysis.support = 100 * Scale
    /\ analysis.resistance = 100 * Scale

\* C5, as claimed: in Scenario A the indicators are RSI 100, SMA20 = SMA50 =
\* 100, MACD 0, support = resistance = 100, no rule fires and generate_signal
\* returns None.
C5_ScenarioA_Absent ==
    ScenarioA =>
        /\ ScenarioAIndicators
        /\ signals = << >>
        /\ result1 = None

\* C5, amended: in Scenario A the indicators are as claimed; the RSI of 100
\* fires the overbought rule and the price is near the support, so the
\* strength is -2 and generate_signal returns a STRONG SELL message.
C5_ScenarioA_StrongSell ==
    ScenarioA =>
        /\ ScenarioAIndicators
        /\ signals = << NOTE_OVERBOUGHT, NoteSupport(100 * Scale) >>
        /\ signal_strength = -2
        /\ result1 # None
        /\ result1[1].signal_type = "STRONG SELL"

C5_Witness ==
    /\ ScenarioA
    /\ result1 # None

WithoutTime(r) == [r[1] EXCEPT !.time = 0]

---------------------------------------------------------------------------
(* Properties of the scheduler, under Spec and FairSpec *)

\* the handling of asset a has ended in this cycle
Handled(a) == a <= Len(visited) /\ ~(idx = a /\ pc \in AssetPcs)

Failed(a) == outcome[a] \in {"no_current_data", "no_history", "error"}

\* C3: the assets are visited once each in registry order; a failed fetch or
\* an error of one asset skips that asset only: the pass goes on to the
\* following assets and ends with every asset handled, never in the recovery
\* path of run_bot.
C3_FailureSkipsOneAsset ==
    /\ visited = [k \in 1..Len(visited) |-> Registry[k][1]]
    /\ pc \in AssetPcs => Len(visited) = idx
    /\ pc = "cooldown" => Len(visited) = NumAssets
    /\ \A a \in Assets :
          /\ Handled(a) => outcome[a] # "none"
          /\ (Handled(a) /\ Failed(a)) =>
                /\ pc # "recovery"
                /\ a < NumAssets => Len(visited) > a

C3_Witness ==
    /\ pc = "cooldown"
    /\ outcome[1] = "analyzed" /\ delivery[1] = "ok"
    /\ outcome[2] = "no_current_data"
    /\ outcome[NumAssets] = "analyzed" /\ delivery[NumAssets] = "ok"

\* C4: whatever failed before, another cycle starts: a cycle starts infinitely
\* often.
C4_CycleStartsInfinitelyOften == []<>(pc = "startup")

C4_Witness ==
    /\ pc = "loop"
    /\ prevOutcome = "completed"
    /\ \E a, b, c \in Assets :
          /\ outcome[a] = "no_current_data"
          /\ outcome[b] = "error"
          /\ delivery[c] = "failed"

\* the sleeps of run_bot that follow a cycle of the given outcome
DelayAfter(o) ==
    IF o = "completed" THEN << COOLDOWN_DELAY >>
    ELSE IF o = "aborted" THEN << RECOVERY_DELAY >>
    ELSE << >>

\* C7: a cycle is running only after the previous cycle has ended and exactly
\* one delay has been slept in full: the cooldown after a completed pass, the
\* recovery delay after an aborted cycle; the cooldown is entered only with the
\* whole registry visited.
C7_OneDelayBetweenCycles ==
    /\ pc \in CyclePcs \cup {"loop"} => slept = DelayAfter(prevOutcome)
    /\ pc = "cooldown" =>
          prevOutcome = "completed" /\ slept = << >> /\ Len(visited) = NumAssets
    /\ pc = "recovery" => prevOutcome = "aborted" /\ slept = << >>
    /\ COOLDOWN_DELAY # RECOVERY_DELAY

C7_Witness ==
    /\ pc \in AssetPcs
    /\ prevOutcome = "aborted"
    /\ slept = << RECOVERY_DELAY >>

\* C8: after the handling of every asset (analyzed, skipped or failed) one
\* pacing delay has elapsed before the next asset is fetched.
C8_PacingAfterEveryAsset ==
    \A a \in Assets : Handled(a) => paced[a] = 1

\* C10: the notifier is called at most once per asset and cycle; after a
\* failed delivery the message is not sent again, run_bot does not enter its
\* recovery path, and the cycle goes on with the pacing and the next asset.
C10_DeliveryFailureNotFatal ==
    \A a \in Assets :
        /\ sends[a] <= 1
        /\ delivery[a] = "failed" =>
              /\ sends[a] = 1
              /\ pc # "recovery"
              /\ (idx = a /\ pc \in AssetPcs) => pc = "pacing"
              /\ (Handled(a) /\ a < NumAssets) => Len(visited) > a

C10_Witness ==
    /\ pc = "cooldown"
    /\ delivery[1] = "failed"
    /\ sends[1] = 1
    /\ outcome[2] = "analyzed"
    /\ delivery[2] = "ok"

=============================================================================
